---------------------------- MODULE Spec2Model ----------------------------
(***************************************************************************)
(* Smart-Posture-Monitor: the front-view monitor (src/app/app.py), the     *)
(* side-view monitor (src/app/side_view.py) and the pose API process       *)
(* (src/api/APIm.py).                                                      *)
(*                                                                         *)
(* Units.  Time is in milliseconds.  Angles are in whole degrees (atan2    *)
(* is rounded to the nearest degree).  Image coordinates are integers on   *)
(* a grid of even numbers, so that midpoints are exact.  Confidences are   *)
(* in percent.  A subscore is in units of 1/10000 (One = 1.0); a weight    *)
(* is in tenths; a composite score is in thousandths of a point            *)
(* (60 points = 60000).  A torso ratio is in hundredths.                   *)
(***************************************************************************)
EXTENDS Integers, Sequences, FiniteSets, TLC

VARIABLES
    variant,                      \* "front" (app.py) or "side" (side_view.py)
    now,                          \* the wall clock, time.time()
    bad_start,                    \* PostureMonitor.bad_start
    seated_start,                 \* PostureMonitor.seated_start
    last_head,                    \* app.py PostureMonitor.last_head
    last_eye_ear_shoulder_angle,  \* side_view.py PostureMonitor field
    last_move,                    \* PostureMonitor.last_move
    detected_side,                \* side_view.py PostureMonitor.detected_side
    keypoints,                    \* the pose passed to the latest update
    ret,                          \* what the latest update returned
    nUpdates,                     \* number of update calls made
    hist,                         \* history of the run, for the properties
    latest_frame,                 \* APIm.py global
    latest_keypoints,             \* APIm.py global
    data_lock,                    \* APIm.py global: the holder, or "free"
    cap,                          \* capture thread: pc, frame in hand
    req,                          \* the /pose request handlers: pc, response
    gen,                          \* the /video generator: pc, frames yielded,
                                  \* work done inside the current with block
    published,                    \* index of the last frame published
    calc                          \* a scoring function called on its own:
                                  \* the function, its arguments, its results

vars == <<variant, now, bad_start, seated_start, last_head,
          last_eye_ear_shoulder_angle, last_move, detected_side, keypoints,
          ret, nUpdates, hist, latest_frame, latest_keypoints, data_lock,
          cap, req, gen, published, calc>>

monVars == <<variant, now, bad_start, seated_start, last_head,
             last_eye_ear_shoulder_angle, last_move, detected_side,
             keypoints, ret, nUpdates, hist>>

apiVars == <<latest_frame, latest_keypoints, data_lock, cap, req, gen, published>>

-----------------------------------------------------------------------------
(* Python values *)

\* An Optional<float>: None, a number, or the float not-a-number.
None == [tag |-> "None", v |-> 0]
NaN == [tag |-> "NaN", v |-> 0]
Num(x) == [tag |-> "Num", v |-> x]
IsNum(o) == o.tag = "Num"

\* Python truthiness of an Optional<float>: None and 0.0 are falsy, nan is truthy.
Truthy(o) == o.tag = "NaN" \/ (o.tag = "Num" /\ o.v # 0)

\* The Python value of a comparison.
PyBool(b) == IF b THEN "True" ELSE "False"

Abs(x) == IF x < 0 THEN -x ELSE x
Max(a, b) == IF a >= b THEN a ELSE b
Min(a, b) == IF a <= b THEN a ELSE b

-----------------------------------------------------------------------------
(* Arithmetic: square root and atan2 *)

RECURSIVE IsqrtIn(_, _, _)
IsqrtIn(n, lo, hi) ==
    IF lo >= hi THEN lo
    ELSE LET mid == (lo + hi + 1) \div 2
         IN  IF mid * mid <= n THEN IsqrtIn(n, mid, hi) ELSE IsqrtIn(n, lo, mid - 1)

\* The integer square root of n, 0 <= n < 2^24.
Isqrt(n) == IsqrtIn(n, 0, 4095)

\* np.linalg.norm of a 2-vector, in hundredths of a grid unit.
Norm(v) == Isqrt(10000 * (v[1] * v[1] + v[2] * v[2]))

\* 1000 * tan((k - 1/2) degrees), k = 1..45: the angle whose tangent is r/1000
\* rounds to k or more exactly when TanThr[k] <= r.
TanThr == <<9, 26, 44, 61, 79, 96, 114, 132, 149, 167, 185, 203, 222, 240,
            259, 277, 296, 315, 335, 354, 374, 394, 414, 435, 456, 477, 499,
            521, 543, 566, 589, 613, 637, 662, 687, 713, 740, 767, 795, 824,
            854, 885, 916, 949, 983>>

\* atan(r/1000) in degrees for 0 <= r <= 1000, rounded to the nearest degree.
AtanOct(r) == Cardinality({k \in 1..45 : TanThr[k] <= r})

\* atan(n/d) in degrees, for n, d >= 0 not both 0: 0..90.
AtanQuad(n, d) ==
    IF d = 0 THEN 90
    ELSE IF n = 0 THEN 0
    ELSE IF n <= d THEN AtanOct((n * 1000) \div d)
    ELSE 90 - AtanOct((d * 1000) \div n)

\* math.degrees(math.atan2(y, x)): -179..180, atan2(0, 0) = 0.
Atan2Deg(y, x) ==
    IF x = 0 /\ y = 0 THEN 0
    ELSE LET a == AtanQuad(Abs(y), Abs(x))
         IN  IF x >= 0 THEN (IF y >= 0 THEN a ELSE -a)
             ELSE (IF y >= 0 THEN 180 - a ELSE -(180 - a))

-----------------------------------------------------------------------------
(* Poses *)

\* A keypoint (y, x, confidence), as MoveNet returns it.
KP(y, x, c) == <<y, x, c>>

\* keypoints[i][:2]
YX(kp) == <<kp[1], kp[2]>>

\* A pose of 17 keypoints: those of m, the others at the origin with no confidence.
Pose(m) == [i \in 0..16 |-> IF i \in DOMAIN m THEN m[i] ELSE KP(0, 0, 0)]

Sub(p, q) == <<p[1] - q[1], p[2] - q[2]>>
Dot(p, q) == p[1] * q[1] + p[2] * q[2]

-----------------------------------------------------------------------------
(* Front view: src/app/app.py *)

MIN_KP_CONF == 40
BAD_POSTURE_ALERT_TIME == 10000
SEATED_ALERT_TIME == 45 * 60 * 1000
FOCUS_MIN_TIME == 5 * 60 * 1000
NECK_FLEX_BAD == 18
TORSO_COMP_BAD == 160
TORSO_ROLL_BAD == 12
HEAD_MOVEMENT_THRESH == 3
W_NECK == 4
W_TORSO == 4
W_ROLL == 2

\* The subscore 1.0 and the neutral subscore 0.5.
One == 10000
Half == 5000

\* The classification boundary, 60 points.
GOOD_MIN == 60000

valid(kp) == kp[3] > MIN_KP_CONF

midpoint(p1, p2) == <<(p1[1] + p2[1]) \div 2, (p1[2] + p2[2]) \div 2>>

\* torso_frame and to_torso_coords: the nose in torso coordinates, each
\* component multiplied by |x_axis| * |y_axis| (which atan2 does not see),
\* or NaN when an axis has length 0 (numpy divides 0 by 0 without raising).
torso_coords(kps) ==
    LET l_sh == YX(kps[5])
        r_sh == YX(kps[6])
        shoulder_mid == midpoint(l_sh, r_sh)
        hip_mid == midpoint(YX(kps[11]), YX(kps[12]))
        y_axis == Sub(shoulder_mid, hip_mid)
        x_axis == Sub(r_sh, l_sh)
        v == Sub(YX(kps[0]), hip_mid)
    IN  IF Norm(y_axis) = 0 \/ Norm(x_axis) = 0 THEN NaN
        ELSE Num(<<Dot(v, x_axis) * Norm(y_axis), Dot(v, y_axis) * Norm(x_axis)>>)

neck_flexion(kps) ==
    IF ~(\A i \in {0, 5, 6, 11, 12} : valid(kps[i])) THEN None
    ELSE LET v == torso_coords(kps)
         IN  IF v.tag = "NaN" THEN NaN
             ELSE Num(Abs(Atan2Deg(v.v[1], v.v[2])))

torso_compression(kps) ==
    LET l_sh == YX(kps[5])
        r_sh == YX(kps[6])
        shoulder_w == Norm(Sub(l_sh, r_sh))
        torso_h == Norm(Sub(midpoint(l_sh, r_sh), midpoint(YX(kps[11]), YX(kps[12]))))
    IN  IF shoulder_w > 0 THEN Num((torso_h * 100) \div shoulder_w) ELSE None

torso_roll(kps) ==
    LET dx == kps[6][2] - kps[5][2]
        dy == kps[6][1] - kps[5][1]
    IN  Num(Abs(Atan2Deg(dy, dx)))

\* Mutant of subscore: the ramp is not clamped.
subscore_Unclamped(val, thresh, invert) ==
    IF val.tag = "None" THEN Half
    ELSE IF invert
         THEN (IF val.tag = "NaN" THEN One ELSE (val.v * One) \div thresh)
         ELSE (IF val.tag = "NaN" THEN 0 ELSE One - (val.v * One) \div thresh)

\* Mutant of subscore: invert is ignored.
subscore_NoInvert(val, thresh, invert) ==
    IF val.tag = "None" THEN Half
    ELSE IF val.tag = "NaN" THEN 0
    ELSE Max(0, One - (val.v * One) \div thresh)

\* subscore(val, thresh, invert): Python's min and max keep their first
\* argument when the second is nan.
subscore(val, thresh, invert) ==
    IF val.tag = "None" THEN Half
    ELSE IF invert
         THEN (IF val.tag = "NaN" THEN One
               ELSE Min(One, (val.v * One) \div thresh))
         ELSE (IF val.tag = "NaN" THEN 0
               ELSE Max(0, One - (val.v * One) \div thresh))

\* Mutant of classify: a score of exactly 60 is BAD.
classify_Strict(score) == IF score > GOOD_MIN THEN "GOOD" ELSE "BAD"

classify(score) == IF score >= GOOD_MIN THEN "GOOD" ELSE "BAD"

front_reasons(neck, comp, roll) ==
    (IF Truthy(neck) /\ IsNum(neck) /\ neck.v > NECK_FLEX_BAD
        THEN <<"Forward Head">> ELSE <<>>)
    \o (IF Truthy(comp) /\ IsNum(comp) /\ comp.v < TORSO_COMP_BAD
        THEN <<"Slouching">> ELSE <<>>)
    \o (IF IsNum(roll) /\ roll.v > TORSO_ROLL_BAD
        THEN <<"Lateral Lean">> ELSE <<>>)

posture_score(kps) ==
    LET neck == neck_flexion(kps)
        comp == torso_compression(kps)
        roll == torso_roll(kps)
        s_neck == subscore(neck, NECK_FLEX_BAD, FALSE)
        s_torso == subscore(comp, TORSO_COMP_BAD, TRUE)
        s_roll == subscore(roll, TORSO_ROLL_BAD, FALSE)
        score == W_NECK * s_neck + W_TORSO * s_torso + W_ROLL * s_roll
    IN  [tag |-> "data",
         score |-> score,
         classification |-> classify(score),
         subscores |-> [Neck |-> s_neck, Torso |-> s_torso, Roll |-> s_roll],
         reasons |-> front_reasons(neck, comp, roll)]

-----------------------------------------------------------------------------
(* Side view: src/app/side_view.py *)

SV_MIN_KP_CONF == 30
NECK_FORWARD_MIN == 160
NECK_FORWARD_MAX == 180
NECK_BACKWARD_MIN == 180
NECK_BACKWARD_MAX == 190
TORSO_FORWARD_MIN == 80
TORSO_FORWARD_MAX == 90
TORSO_BACKWARD_MIN == 90
TORSO_BACKWARD_MAX == 105
EYE_EAR_SHOULDER_ANGLE_THRESH == 3
NECK_FORWARD_TOLERANCE == NECK_FORWARD_MAX - NECK_FORWARD_MIN
NECK_BACKWARD_TOLERANCE == NECK_BACKWARD_MAX - NECK_BACKWARD_MIN
TORSO_FORWARD_TOLERANCE == TORSO_FORWARD_MAX - TORSO_FORWARD_MIN
TORSO_BACKWARD_TOLERANCE == TORSO_BACKWARD_MAX - TORSO_BACKWARD_MIN
SV_W_NECK == 5
SV_W_TORSO == 5

LEFT_INDICES == [eye |-> 1, ear |-> 3, shoulder |-> 5, hip |-> 11, knee |-> 13]
RIGHT_INDICES == [eye |-> 2, ear |-> 4, shoulder |-> 6, hip |-> 12, knee |-> 14]

\* The angle at p2 of p1-p2-p3, in degrees, 0..359.
calculate_angle(p1, p2, p3) ==
    LET v1 == <<p1[1] - p2[1], p1[2] - p2[2]>>
        v2 == <<p3[1] - p2[1], p3[2] - p2[2]>>
        angle1 == Atan2Deg(v1[2], v1[1])
        angle2 == Atan2Deg(v2[2], v2[1])
        angle_deg == angle2 - angle1
    IN  IF angle_deg < 0 THEN angle_deg + 360 ELSE angle_deg

side_conf(kps, indices) ==
    kps[indices.eye][3] + kps[indices.ear][3] + kps[indices.shoulder][3]
        + kps[indices.hip][3] + kps[indices.knee][3]

\* Mutant of detect_side: LEFT only when its sum is strictly larger.
detect_side_Strict(kps) ==
    IF side_conf(kps, LEFT_INDICES) > side_conf(kps, RIGHT_INDICES)
    THEN "LEFT" ELSE "RIGHT"

detect_side(kps) ==
    IF side_conf(kps, LEFT_INDICES) >= side_conf(kps, RIGHT_INDICES)
    THEN "LEFT" ELSE "RIGHT"

get_side_keypoints(kps, side) ==
    LET indices == IF side = "LEFT" THEN LEFT_INDICES ELSE RIGHT_INDICES
    IN  [eye |-> kps[indices.eye], ear |-> kps[indices.ear],
         shoulder |-> kps[indices.shoulder], hip |-> kps[indices.hip],
         knee |-> kps[indices.knee]]

\* The confidence check of update: the frame is rejected, no score is made.
side_rejected(side_kps) ==
    \/ side_kps.ear[3] < SV_MIN_KP_CONF
    \/ side_kps.shoulder[3] < SV_MIN_KP_CONF
    \/ side_kps.hip[3] < SV_MIN_KP_CONF
    \/ side_kps.knee[3] < SV_MIN_KP_CONF

\* max(0, 1 - dist / tolerance)
ramp(dist, tolerance) == Max(0, One - (dist * One) \div tolerance)

\* Mutant of neck_subscore: the forward tolerance is used on both sides.
neck_subscore_OneTolerance(neck_angle) ==
    IF NECK_FORWARD_MAX <= neck_angle /\ neck_angle <= NECK_BACKWARD_MIN THEN One
    ELSE IF neck_angle < NECK_FORWARD_MAX
         THEN ramp(NECK_FORWARD_MAX - neck_angle, NECK_FORWARD_TOLERANCE)
         ELSE ramp(neck_angle - NECK_BACKWARD_MIN, NECK_FORWARD_TOLERANCE)

\* s_neck of the side-view update
neck_subscore(neck_angle) ==
    IF NECK_FORWARD_MAX <= neck_angle /\ neck_angle <= NECK_BACKWARD_MIN THEN One
    ELSE IF neck_angle < NECK_FORWARD_MAX
         THEN ramp(NECK_FORWARD_MAX - neck_angle, NECK_FORWARD_TOLERANCE)
         ELSE ramp(neck_angle - NECK_BACKWARD_MIN, NECK_BACKWARD_TOLERANCE)

torso_subscore(torso_angle) ==
    IF TORSO_FORWARD_MAX <= torso_angle /\ torso_angle <= TORSO_BACKWARD_MIN THEN One
    ELSE IF torso_angle < TORSO_FORWARD_MAX
         THEN ramp(TORSO_FORWARD_MAX - torso_angle, TORSO_FORWARD_TOLERANCE)
         ELSE ramp(torso_angle - TORSO_BACKWARD_MIN, TORSO_BACKWARD_TOLERANCE)

\* The reasons, without the angle each carries in its text.
side_reasons(neck_angle, torso_angle) ==
    (IF NECK_FORWARD_MAX <= neck_angle /\ neck_angle <= NECK_BACKWARD_MIN THEN <<>>
     ELSE IF neck_angle > NECK_FORWARD_MAX THEN <<"Neck Forward">>
     ELSE <<"Neck Back">>)
    \o (IF TORSO_FORWARD_MAX <= torso_angle /\ torso_angle <= TORSO_BACKWARD_MIN THEN <<>>
        ELSE IF torso_angle > TORSO_FORWARD_MAX THEN <<"Torso Slouched">>
        ELSE <<"Torso Leaning Back">>)

\* The score part of the side-view update, for a frame that is not rejected.
side_score(side_kps) ==
    LET ear == YX(side_kps.ear)
        eye == YX(side_kps.eye)
        shoulder == YX(side_kps.shoulder)
        hip == YX(side_kps.hip)
        knee == YX(side_kps.knee)
        neck_angle == calculate_angle(ear, shoulder, hip)
        torso_angle == calculate_angle(shoulder, hip, knee)
        eye_ear_shoulder_angle == calculate_angle(eye, ear, shoulder)
        s_neck == neck_subscore(neck_angle)
        s_torso == torso_subscore(torso_angle)
        score == SV_W_NECK * s_neck + SV_W_TORSO * s_torso
    IN  [tag |-> "data",
         score |-> score,
         classification |-> classify(score),
         subscores |-> [Neck |-> s_neck, Torso |-> s_torso],
         reasons |-> side_reasons(neck_angle, torso_angle),
         neck_angle |-> neck_angle,
         torso_angle |-> torso_angle,
         eye_ear_shoulder_angle |-> eye_ear_shoulder_angle]

\* The data an update returns when it makes no score.
NoData == [tag |-> "None"]

-----------------------------------------------------------------------------
(* The poses the monitors are run on *)

\* Front view: nose at (0, nx), shoulders at height 4, hips at height hy;
\* lx and rx are the image columns of the left and the right shoulder.
FrontPose(nx, nc, lx, rx, sc, hy, hc) ==
    Pose(0 :> KP(0, nx, nc) @@ 5 :> KP(4, lx, sc) @@ 6 :> KP(4, rx, sc)
         @@ 11 :> KP(hy, 6, hc) @@ 12 :> KP(hy, 10, hc))

FUpright == FrontPose(8, 90, 6, 10, 90, 12, 90)      \* neck 0, ratio 2.0, roll 0
FTilt == FrontPose(10, 90, 6, 10, 90, 12, 90)        \* neck 9
FBad == FrontPose(14, 90, 6, 10, 90, 8, 90)          \* neck 37, ratio 1.0
FBadStill == FrontPose(8, 90, 10, 6, 90, 6, 90)      \* neck 0, ratio 0.5, roll 180
FLowConf == FrontPose(8, 90, 6, 10, 10, 12, 10)      \* shoulders and hips unseen
FLowConfLean == FrontPose(8, 90, 10, 6, 10, 6, 10)   \* the same, other coordinates
FSixty == FrontPose(8, 10, 10, 6, 90, 12, 90)        \* nose unseen, roll 180
FDegenerate == FrontPose(8, 90, 8, 8, 90, 12, 90)    \* the shoulders coincide
FFlat == FrontPose(8, 90, 6, 10, 90, 4, 90)          \* hips at shoulder height
\* Upright and symmetric, the left shoulder and hip on the image right.
FMirror == Pose(0 :> KP(0, 8, 100) @@ 5 :> KP(4, 10, 100) @@ 6 :> KP(4, 6, 100)
                @@ 11 :> KP(12, 10, 100) @@ 12 :> KP(12, 6, 100))

FrontPoses == {FUpright, FTilt, FBad, FBadStill, FLowConf, FLowConfLean,
               FSixty, FDegenerate, FFlat, FMirror}

\* Side view: the five joints of one side (LEFT_INDICES or RIGHT_INDICES),
\* with confidence c but the ear with confidence ec.
SideJoints(ix, eye, ear, knee, c, ec) ==
    ix.eye :> KP(eye[1], eye[2], c) @@ ix.ear :> KP(ear[1], ear[2], ec)
    @@ ix.shoulder :> KP(8, 16, c) @@ ix.hip :> KP(14, 16, c)
    @@ ix.knee :> KP(knee[1], knee[2], c)

SGood == Pose(SideJoints(LEFT_INDICES, <<2, 12>>, <<2, 16>>, <<14, 10>>, 90, 90))
SGoodMoved == Pose(SideJoints(LEFT_INDICES, <<4, 12>>, <<2, 16>>, <<14, 10>>, 90, 90))
SBad == Pose(SideJoints(LEFT_INDICES, <<2, 6>>, <<2, 10>>, <<14, 10>>, 90, 90))
SSixty == Pose(SideJoints(LEFT_INDICES, <<2, 12>>, <<2, 16>>, <<12, 2>>, 90, 90))
SReject == Pose(SideJoints(LEFT_INDICES, <<2, 12>>, <<2, 16>>, <<14, 10>>, 90, 10))
SRight == Pose(SideJoints(RIGHT_INDICES, <<2, 12>>, <<2, 16>>, <<14, 10>>, 90, 90)
               @@ SideJoints(LEFT_INDICES, <<2, 6>>, <<2, 10>>, <<14, 10>>, 50, 50))
STie == Pose(SideJoints(RIGHT_INDICES, <<2, 12>>, <<2, 16>>, <<14, 10>>, 90, 90)
             @@ SideJoints(LEFT_INDICES, <<2, 6>>, <<2, 10>>, <<14, 10>>, 90, 90))
\* ear, shoulder, hip and knee exactly at MIN_KP_CONF, the eye below it
SFaint == Pose((LEFT_INDICES.eye :> KP(2, 12, 10))
               @@ SideJoints(LEFT_INDICES, <<2, 12>>, <<2, 16>>, <<14, 10>>, 30, 30))

SidePoses == {SGood, SGoodMoved, SBad, SSixty, SReject, SRight, STie, SFaint}

\* The time between two readings of the clock, in ms.
Deltas == {1, 9999, 10000, 300000, 2700000}

\* The clock at construction, and the number of update calls of a run.
Epoch == 1000
MaxUpdates == 3

-----------------------------------------------------------------------------
(* The monitors: PostureMonitor of app.py and of side_view.py *)

NoRet == [tag |-> "none"]

\* posture_score and neck_flexion, tabulated once over the poses of the model.
FrontTable == [kps \in FrontPoses |->
                 [data |-> posture_score(kps), neck |-> neck_flexion(kps)]]

\* The first part of the side-view update, tabulated once over the poses of
\* the model: the side, its keypoints, the confidence check and the score.
SideTable == [kps \in SidePoses |->
                LET side == detect_side(kps)
                    side_kps == get_side_keypoints(kps, side)
                    rejected == side_rejected(side_kps)
                IN  [side |-> side, side_kps |-> side_kps, rejected |-> rejected,
                     data |-> IF rejected THEN NoData ELSE side_score(side_kps)]]

\* Mutant of bad_start_next: a GOOD frame does not clear the timer.
bad_start_next_NoReset(bs, bad, t) ==
    IF bad THEN (IF Truthy(bs) THEN bs ELSE Num(t)) ELSE bs

\* self.bad_start = self.bad_start or now  /  self.bad_start = None
bad_start_next(bs, bad, t) ==
    IF bad THEN (IF Truthy(bs) THEN bs ELSE Num(t)) ELSE None

\* Mutant of bad_alert_of: the alert is raised at 10 s, not after it.
bad_alert_of_AtLeast(bs, t) ==
    IF Truthy(bs) THEN PyBool(t - bs.v >= BAD_POSTURE_ALERT_TIME)
    ELSE IF bs.tag = "None" THEN "None" ELSE "0.0"

\* self.bad_start and (now - self.bad_start > BAD_POSTURE_ALERT_TIME)
bad_alert_of(bs, t) ==
    IF Truthy(bs) THEN PyBool(t - bs.v > BAD_POSTURE_ALERT_TIME)
    ELSE IF bs.tag = "None" THEN "None" ELSE "0.0"

\* (now - self.seated_start) > SEATED_ALERT_TIME
seated_alert_of(t, ss) == PyBool(t - ss > SEATED_ALERT_TIME)

\* (now - self.last_move) > FOCUS_MIN_TIME
focused_of(t, lm) == PyBool(t - lm > FOCUS_MIN_TIME)

\* app.py: self.last_head and abs(neck - self.last_head) > HEAD_MOVEMENT_THRESH
\* (a comparison with nan is false).
head_moved(lh, neck) ==
    /\ Truthy(lh)
    /\ IsNum(lh) /\ IsNum(neck)
    /\ Abs(neck.v - lh.v) > HEAD_MOVEMENT_THRESH

\* side_view.py: the last angle is not None and differs by more than the threshold.
eye_moved(la, angle) ==
    /\ la.tag # "None"
    /\ Abs(angle - la.v) > EYE_EAR_SHOULDER_ANGLE_THRESH

\* What the properties remember of a run: cls and ref are the classification
\* ("GOOD", "BAD", or "rejected" when no score was made) and the reference
\* angle (None when it could not be computed) of the update made at time t.
Observe(h, t, cls, ref, seated, bsBefore) ==
    LET moved == IsNum(ref) /\ IsNum(h.prevRef)
                 /\ Abs(ref.v - h.prevRef.v) > HEAD_MOVEMENT_THRESH
    IN  [lastClass |-> cls,
         run |-> IF cls # "BAD" THEN None
                 ELSE IF h.lastClass = "BAD" THEN h.run
                 ELSE IF bsBefore = None THEN Num(t) ELSE None,
         afterGood |-> (cls = "GOOD") \/ (h.afterGood /\ cls # "GOOD"),
         sinceGood |-> IF cls = "GOOD" THEN None
                       ELSE IF cls = "BAD" /\ h.afterGood /\ h.sinceGood = None
                            THEN Num(t)
                       ELSE h.sinceGood,
         seatedSeen |-> h.seatedSeen \/ seated = "True",
         seatedBefore |-> h.seatedSeen,
         prevRef |-> IF IsNum(ref) THEN ref ELSE h.prevRef,
         moved |-> moved,
         lastMoveObs |-> IF moved THEN t ELSE h.lastMoveObs,
         firstBad |-> IF cls = "BAD" /\ h.firstBad = None THEN Num(t) ELSE h.firstBad,
         rejectedSinceBad |-> h.rejectedSinceBad
                              \/ (cls = "rejected" /\ h.firstBad # None),
         prevBadStart |-> bsBefore]

MonInit ==
    /\ variant \in {"front", "side"}
    /\ seated_start = Epoch
    /\ last_move \in {Epoch, Epoch + 1}
    /\ now = last_move
    /\ bad_start = None
    /\ last_head = None
    /\ last_eye_ear_shoulder_angle = None
    /\ detected_side = "None"
    /\ keypoints = Pose(<<>>)
    /\ ret = NoRet
    /\ nUpdates = 0
    /\ hist = [lastClass |-> "none", run |-> None, afterGood |-> FALSE,
               sinceGood |-> None, seatedSeen |-> FALSE, seatedBefore |-> FALSE,
               prevRef |-> None, moved |-> FALSE, lastMoveObs |-> last_move,
               firstBad |-> None, rejectedSinceBad |-> FALSE,
               prevBadStart |-> None]

\* app.py PostureMonitor.update(keypoints), the clock reading t
UpdateFront(kps, t) ==
    LET data == FrontTable[kps].data
        bad == data.score < GOOD_MIN
        bs == bad_start_next(bad_start, bad, t)
        bad_alert == bad_alert_of(bs, t)
        seated_alert == seated_alert_of(t, seated_start)
        neck == FrontTable[kps].neck
        lm == IF neck # None /\ head_moved(last_head, neck) THEN t ELSE last_move
        focused == IF neck # None THEN focused_of(t, lm) ELSE "False"
    IN  /\ variant = "front"
        /\ nUpdates < MaxUpdates
        /\ now' = t
        /\ keypoints' = kps
        /\ bad_start' = bs
        /\ last_move' = lm
        /\ last_head' = IF neck # None THEN neck ELSE last_head
        /\ ret' = [tag |-> "ret", data |-> data, bad_alert |-> bad_alert,
                   seated_alert |-> seated_alert, focused |-> focused]
        /\ nUpdates' = nUpdates + 1
        /\ hist' = Observe(hist, t, data.classification, neck, seated_alert, bad_start)
        /\ UNCHANGED <<variant, seated_start, last_eye_ear_shoulder_angle,
                       detected_side>>

\* Mutant of UpdateSide: a rejected frame clears bad_start.
UpdateSide_RejectResets(kps, t) ==
    LET side == SideTable[kps].side
        side_kps == SideTable[kps].side_kps
        rejected == SideTable[kps].rejected
        data == SideTable[kps].data
        bad == data.score < GOOD_MIN
        bs == bad_start_next(bad_start, bad, t)
        bad_alert == bad_alert_of(bs, t)
        seated_alert == seated_alert_of(t, seated_start)
        angle == data.eye_ear_shoulder_angle
        lm == IF eye_moved(last_eye_ear_shoulder_angle, angle) THEN t ELSE last_move
    IN  /\ variant = "side"
        /\ nUpdates < MaxUpdates
        /\ now' = t
        /\ keypoints' = kps
        /\ detected_side' = side
        /\ nUpdates' = nUpdates + 1
        /\ IF rejected
           THEN /\ ret' = [tag |-> "ret", data |-> NoData, bad_alert |-> "False",
                           seated_alert |-> "False", focused |-> "False",
                           side_kps |-> side_kps]
                /\ hist' = Observe(hist, t, "rejected", None, "False", bad_start)
                /\ bad_start' = None
                /\ UNCHANGED <<last_move, last_eye_ear_shoulder_angle>>
           ELSE /\ bad_start' = bs
                /\ last_move' = lm
                /\ last_eye_ear_shoulder_angle' = Num(angle)
                /\ ret' = [tag |-> "ret", data |-> data, bad_alert |-> bad_alert,
                           seated_alert |-> seated_alert,
                           focused |-> focused_of(t, lm), side_kps |-> side_kps]
                /\ hist' = Observe(hist, t, data.classification, Num(angle),
                                   seated_alert, bad_start)
        /\ UNCHANGED <<variant, seated_start, last_head>>

\* side_view.py PostureMonitor.update(keypoints), the clock reading t
UpdateSide(kps, t) ==
    LET side == SideTable[kps].side
        side_kps == SideTable[kps].side_kps
        rejected == SideTable[kps].rejected
        data == SideTable[kps].data
        bad == data.score < GOOD_MIN
        bs == bad_start_next(bad_start, bad, t)
        bad_alert == bad_alert_of(bs, t)
        seated_alert == seated_alert_of(t, seated_start)
        angle == data.eye_ear_shoulder_angle
        lm == IF eye_moved(last_eye_ear_shoulder_angle, angle) THEN t ELSE last_move
    IN  /\ variant = "side"
        /\ nUpdates < MaxUpdates
        /\ now' = t
        /\ keypoints' = kps
        /\ detected_side' = side
        /\ nUpdates' = nUpdates + 1
        /\ IF rejected
           THEN /\ ret' = [tag |-> "ret", data |-> NoData, bad_alert |-> "False",
                           seated_alert |-> "False", focused |-> "False",
                           side_kps |-> side_kps]
                /\ hist' = Observe(hist, t, "rejected", None, "False", bad_start)
                /\ UNCHANGED <<bad_start, last_move, last_eye_ear_shoulder_angle>>
           ELSE /\ bad_start' = bs
                /\ last_move' = lm
                /\ last_eye_ear_shoulder_angle' = Num(angle)
                /\ ret' = [tag |-> "ret", data |-> data, bad_alert |-> bad_alert,
                           seated_alert |-> seated_alert,
                           focused |-> focused_of(t, lm), side_kps |-> side_kps]
                /\ hist' = Observe(hist, t, data.classification, Num(angle),
                                   seated_alert, bad_start)
        /\ UNCHANGED <<variant, seated_start, last_head>>

-----------------------------------------------------------------------------
(* The API process: src/api/APIm.py *)

\* The frames the capture loop processes, the /pose requests and the /video
\* frames a run makes.
MaxFrames == 2
MaxRequests == 2
MaxYields == 2

Handlers == 1..MaxRequests

\* The holders of data_lock.
Free == <<"free", 0>>
ByCapture == <<"capture", 0>>
ByPose(r) == <<"pose", r>>
ByVideo == <<"video", 0>>

\* latest_frame = None, latest_keypoints = None: written as frame index 0;
\* the capture loop's frames are numbered from 1.
Unset == 0

ApiInit ==
    /\ latest_frame = Unset
    /\ latest_keypoints = Unset
    /\ data_lock = Free
    /\ cap = [pc |-> "read", frame |-> 0]
    /\ req = [r \in Handlers |-> [pc |-> "idle", resp |-> "none", kps |-> Unset,
                                  pubAtRead |-> 0, afterKps |-> FALSE]]
    /\ gen = [pc |-> "idle", jpeg |-> Unset, yields |-> 0, held |-> {}]
    /\ published = 0

\* main: a short read of the camera pipe is skipped (continue).
CapShortRead ==
    /\ cap.pc = "read"
    /\ UNCHANGED <<latest_frame, latest_keypoints, data_lock, cap, req, gen, published>>

\* main: a frame is read, converted, inferred and drawn on.
CapFrame ==
    /\ cap.pc = "read"
    /\ cap.frame < MaxFrames
    /\ cap' = [pc |-> "acquire", frame |-> cap.frame + 1]
    /\ UNCHANGED <<latest_frame, latest_keypoints, data_lock, req, gen, published>>

\* Mutant of CapAcquire: the capture loop writes without taking data_lock.
CapAcquire_NoLock ==
    /\ cap.pc = "acquire"
    /\ cap' = [cap EXCEPT !.pc = "frame"]
    /\ UNCHANGED <<latest_frame, latest_keypoints, data_lock, req, gen, published>>

\* main: with data_lock
CapAcquire ==
    /\ cap.pc = "acquire"
    /\ data_lock = Free
    /\ data_lock' = ByCapture
    /\ cap' = [cap EXCEPT !.pc = "frame"]
    /\ UNCHANGED <<latest_frame, latest_keypoints, req, gen, published>>

\* main: latest_frame = frame.copy()
CapWriteFrame ==
    /\ cap.pc = "frame"
    /\ latest_frame' = cap.frame
    /\ cap' = [cap EXCEPT !.pc = "keypoints"]
    /\ UNCHANGED <<latest_keypoints, data_lock, req, gen, published>>

\* main: latest_keypoints = keypoints.copy()
CapWriteKeypoints ==
    /\ cap.pc = "keypoints"
    /\ latest_keypoints' = cap.frame
    /\ cap' = [cap EXCEPT !.pc = "release"]
    /\ UNCHANGED <<latest_frame, data_lock, req, gen, published>>

\* main: the end of the with block; the frame is published.
CapRelease ==
    /\ cap.pc = "release"
    /\ data_lock' = Free
    /\ published' = cap.frame
    /\ cap' = [cap EXCEPT !.pc = "show"]
    /\ UNCHANGED <<latest_frame, latest_keypoints, req, gen>>

\* main: imshow and waitKey; the key q ends the loop.
CapShow ==
    /\ cap.pc = "show"
    /\ \E q \in BOOLEAN : cap' = [cap EXCEPT !.pc = IF q THEN "done" ELSE "read"]
    /\ UNCHANGED <<latest_frame, latest_keypoints, data_lock, req, gen, published>>

\* Some request has returned keypoints.
KeypointsReturned == \E h \in Handlers : req[h].pc = "done" /\ req[h].resp = "keypoints"

\* A client sends GET /pose.
PoseRequest(r) ==
    /\ req[r].pc = "idle"
    /\ req' = [req EXCEPT ![r].pc = "acquire", ![r].afterKps = KeypointsReturned]
    /\ UNCHANGED <<latest_frame, latest_keypoints, data_lock, cap, gen, published>>

\* Mutant of PoseAcquire: the handler does not wait for data_lock.
PoseAcquire_NoLock(r) ==
    /\ req[r].pc = "acquire"
    /\ req' = [req EXCEPT ![r].pc = "read"]
    /\ UNCHANGED <<latest_frame, latest_keypoints, data_lock, cap, gen, published>>

\* get_pose: with data_lock
PoseAcquire(r) ==
    /\ req[r].pc = "acquire"
    /\ data_lock = Free
    /\ data_lock' = ByPose(r)
    /\ req' = [req EXCEPT ![r].pc = "read"]
    /\ UNCHANGED <<latest_frame, latest_keypoints, cap, gen, published>>

\* get_pose: the response is made from latest_keypoints.
PoseRead(r) ==
    /\ req[r].pc = "read"
    /\ req' = [req EXCEPT ![r].pc = "release",
                          ![r].resp = IF latest_keypoints = Unset THEN "warming_up"
                                      ELSE "keypoints",
                          ![r].kps = latest_keypoints,
                          ![r].pubAtRead = published]
    /\ UNCHANGED <<latest_frame, latest_keypoints, data_lock, cap, gen, published>>

\* get_pose: the return leaves the with block.
PoseRelease(r) ==
    /\ req[r].pc = "release"
    /\ data_lock' = Free
    /\ req' = [req EXCEPT ![r].pc = "done"]
    /\ UNCHANGED <<latest_frame, latest_keypoints, cap, gen, published>>

\* A client opens GET /video: the generator starts.
VideoRequest ==
    /\ gen.pc = "idle"
    /\ gen' = [gen EXCEPT !.pc = "acquire"]
    /\ UNCHANGED <<latest_frame, latest_keypoints, data_lock, cap, req, published>>

\* mjpeg_generator: with data_lock
VideoAcquire ==
    /\ gen.pc = "acquire"
    /\ gen.yields < MaxYields
    /\ data_lock = Free
    /\ data_lock' = ByVideo
    /\ gen' = [gen EXCEPT !.pc = "check", !.held = {}]
    /\ UNCHANGED <<latest_frame, latest_keypoints, cap, req, published>>

\* mjpeg_generator: if latest_frame is None: continue (which leaves the with block)
VideoRetry ==
    /\ gen.pc = "check"
    /\ latest_frame = Unset
    /\ data_lock' = Free
    /\ gen' = [gen EXCEPT !.pc = "acquire"]
    /\ UNCHANGED <<latest_frame, latest_keypoints, cap, req, published>>

\* mjpeg_generator: cv2.imencode and tobytes, inside the with block
VideoEncode ==
    /\ gen.pc = "check"
    /\ latest_frame # Unset
    /\ gen' = [gen EXCEPT !.pc = "release", !.jpeg = latest_frame,
                          !.held = gen.held \cup {"imencode", "tobytes"}]
    /\ UNCHANGED <<latest_frame, latest_keypoints, data_lock, cap, req, published>>

\* mjpeg_generator: the end of the with block
VideoRelease ==
    /\ gen.pc = "release"
    /\ data_lock' = Free
    /\ gen' = [gen EXCEPT !.pc = "yield", !.held = {}]
    /\ UNCHANGED <<latest_frame, latest_keypoints, cap, req, published>>

\* mjpeg_generator: yield the part, then loop
VideoYield ==
    /\ gen.pc = "yield"
    /\ gen' = [gen EXCEPT !.pc = "acquire", !.yields = gen.yields + 1]
    /\ UNCHANGED <<latest_frame, latest_keypoints, data_lock, cap, req, published>>

-----------------------------------------------------------------------------
(* The scoring functions called on their own *)

\* The largest feature value subscore is called with (degrees; the torso
\* ratio in tenths).
MaxVal == 40

\* No function is called.
CalcIdle ==
    calc = [fn |-> "none", val |-> 0, val2 |-> 0, thresh |-> 0,
            invert |-> FALSE, out |-> <<>>]

\* The non-negative feature values subscore is called with for a threshold.
SubVals(thresh) ==
    {thresh - 1, thresh, thresh + 1}
    \cup (IF thresh = TORSO_COMP_BAD THEN {10 * k : k \in 0..MaxVal} ELSE 0..MaxVal)

\* The calls: subscore on two values with one threshold and sense, and the
\* side-view subscores on an angle of calculate_angle's range.
CalcInputs ==
    {[fn |-> "subscore", val |-> a, val2 |-> b, thresh |-> th, invert |-> inv,
      out |-> <<>>] :
        a \in 0..MaxVal, b \in 0..MaxVal,
        th \in {NECK_FLEX_BAD, TORSO_ROLL_BAD}, inv \in BOOLEAN}
    \cup {[fn |-> "subscore", val |-> a, val2 |-> b, thresh |-> TORSO_COMP_BAD,
           invert |-> inv, out |-> <<>>] :
        a \in SubVals(TORSO_COMP_BAD), b \in SubVals(TORSO_COMP_BAD),
        inv \in BOOLEAN}
    \cup {[fn |-> f, val |-> a, val2 |-> a, thresh |-> 0, invert |-> FALSE,
           out |-> <<>>] :
        f \in {"neck_subscore", "torso_subscore"}, a \in 0..359}

\* subscore(val, thresh, invert) and subscore(val2, thresh, invert)
CallSubscore ==
    /\ calc.fn = "subscore" /\ calc.out = <<>>
    /\ calc' = [calc EXCEPT !.out =
                   <<subscore(Num(calc.val), calc.thresh, calc.invert),
                     subscore(Num(calc.val2), calc.thresh, calc.invert)>>]

\* s_neck for the neck angle val
CallNeckSubscore ==
    /\ calc.fn = "neck_subscore" /\ calc.out = <<>>
    /\ calc' = [calc EXCEPT !.out = <<neck_subscore(calc.val)>>]

\* s_torso for the torso angle val
CallTorsoSubscore ==
    /\ calc.fn = "torso_subscore" /\ calc.out = <<>>
    /\ calc' = [calc EXCEPT !.out = <<torso_subscore(calc.val)>>]

-----------------------------------------------------------------------------
(* Specifications *)

\* The monitor of either variant, constructed and then updated.
Init == MonInit /\ ApiInit /\ CalcIdle

Next ==
    \/ \E kps \in FrontPoses, d \in Deltas :
          UpdateFront(kps, now + d) /\ UNCHANGED <<apiVars, calc>>
    \/ \E kps \in SidePoses, d \in Deltas :
          UpdateSide(kps, now + d) /\ UNCHANGED <<apiVars, calc>>

Spec == Init /\ [][Next]_vars

\* The API process: the capture thread, /pose handlers and a /video generator.
ApiStart == ApiInit /\ MonInit /\ CalcIdle /\ variant = "front" /\ last_move = Epoch

ApiNext ==
    /\ UNCHANGED <<monVars, calc>>
    /\ \/ CapShortRead
       \/ CapFrame
       \/ CapAcquire
       \/ CapWriteFrame
       \/ CapWriteKeypoints
       \/ CapRelease
       \/ CapShow
       \/ \E r \in Handlers : PoseRequest(r)
       \/ \E r \in Handlers : PoseAcquire(r)
       \/ \E r \in Handlers : PoseRead(r)
       \/ \E r \in Handlers : PoseRelease(r)
       \/ VideoRequest
       \/ VideoAcquire
       \/ VideoRetry
       \/ VideoEncode
       \/ VideoRelease
       \/ VideoYield

ApiSpec == ApiStart /\ [][ApiNext]_vars

\* The steps of each thread of the API process: the capture thread, the
\* handler of a /pose request, the /video generator.
CapStep ==
    /\ UNCHANGED <<monVars, calc>>
    /\ \/ CapFrame
       \/ CapAcquire
       \/ CapWriteFrame
       \/ CapWriteKeypoints
       \/ CapRelease
       \/ CapShow

PoseStep(r) ==
    /\ UNCHANGED <<monVars, calc>>
    /\ \/ PoseAcquire(r)
       \/ PoseRead(r)
       \/ PoseRelease(r)

GenStep ==
    /\ UNCHANGED <<monVars, calc>>
    /\ \/ VideoAcquire
       \/ VideoRetry
       \/ VideoEncode
       \/ VideoRelease
       \/ VideoYield

\* The API process with a scheduler that lets every thread that can take a
\* step eventually take one.  threading.Lock promises no order among the
\* threads waiting for it, so the fairness is weak.
ApiFairSpec ==
    /\ ApiStart
    /\ [][ApiNext]_vars
    /\ WF_vars(CapStep)
    /\ WF_vars(GenStep)
    /\ \A r \in Handlers : WF_vars(PoseStep(r))

\* The scoring functions, each called once on arguments drawn at the start.
ScoreStart ==
    /\ MonInit /\ ApiInit /\ variant = "front" /\ last_move = Epoch
    /\ calc \in CalcInputs

ScoreNext ==
    /\ UNCHANGED <<monVars, apiVars>>
    /\ \/ CallSubscore
       \/ CallNeckSubscore
       \/ CallTorsoSubscore

ScoreSpec == ScoreStart /\ [][ScoreNext]_vars

-----------------------------------------------------------------------------
(* Properties *)

\* An update has been made; it returned a score.
Updated == ret.tag = "ret"
Scored == Updated /\ ret.data.tag = "data"

\* C1: in a run of consecutive updates that all score BAD, begun at time t0
\* with bad_start unset, the update at time now returns the bad-posture alert
\* True exactly when now - t0 > 10 s, and False otherwise (so at t0 + 9.999 s
\* and at t0 + 10 s it is False, at t0 + 10.001 s it is True).
C1_BadAlertAfterTenSeconds ==
    (Scored /\ IsNum(hist.run)) =>
        ret.bad_alert = PyBool(now - hist.run.v > 10000)

C1_Witness ==
    /\ Scored /\ IsNum(hist.run)
    /\ now - hist.run.v = 10001
    /\ ret.bad_alert = "True"

\* C2: an update whose frame classifies GOOD leaves bad_start None and does
\* not raise the bad-posture alert; from the first BAD frame after it,
\* bad_start is the time of that frame, and the alert is raised only once more
\* than 10 s have passed since that frame, however long ago earlier BAD runs
\* began.
C2_GoodFrameResetsTimer ==
    /\ (Updated /\ hist.lastClass = "GOOD") =>
           (bad_start = None /\ ret.bad_alert # "True")
    /\ IsNum(hist.sinceGood) =>
           /\ bad_start = hist.sinceGood
           /\ ret.bad_alert = "True" => now - hist.sinceGood.v > 10000

C2_Witness ==
    /\ IsNum(hist.sinceGood) /\ hist.lastClass = "BAD"
    /\ IsNum(hist.firstBad) /\ hist.firstBad.v < hist.sinceGood.v
    /\ now - hist.firstBad.v > 10000
    /\ now - hist.sinceGood.v <= 10000
    /\ ret.bad_alert = "False"

\* C3: the seated alert of every update is False up to 45 min after
\* seated_start and True after it, whatever the pose, so once True it stays
\* True; update never modifies seated_start.
C3_SeatedAlertLatch ==
    Updated =>
        /\ ret.seated_alert = PyBool(now - seated_start > 45 * 60 * 1000)
        /\ hist.seatedBefore => ret.seated_alert = "True"
        /\ seated_start = Epoch

\* C4: focused is False on an update that observes a movement (the reference
\* angle differs from the previous valid one by more than 3 degrees, whatever
\* the previous one was), and focused is True only if more than 5 min have
\* passed since construction and since the latest such movement.
C4_FocusedFalseOnMovement ==
    Updated =>
        /\ hist.moved => ret.focused = "False"
        /\ ret.focused = "True" =>
               /\ now - seated_start > 5 * 60 * 1000
               /\ now - hist.lastMoveObs > 5 * 60 * 1000

\* The front-view update was given a pose whose shoulders and hips are all
\* below the confidence threshold.
TorsoUnseen ==
    /\ variant = "front" /\ Updated
    /\ \A i \in {5, 6, 11, 12} : keypoints[i][3] < 40

\* C5: in the front view, a pose whose shoulders and hips are below the
\* confidence threshold gives neck flexion, torso compression and torso roll
\* None, every subscore neutral (50), a score of exactly 50 and no reasons,
\* whatever the coordinates of those joints.
C5_UnseenTorsoIsNeutral ==
    TorsoUnseen =>
        /\ neck_flexion(keypoints) = None
        /\ torso_compression(keypoints) = None
        /\ torso_roll(keypoints) = None
        /\ ret.data.subscores = [Neck |-> 5000, Torso |-> 5000, Roll |-> 5000]
        /\ ret.data.score = 50000
        /\ ret.data.reasons = <<>>

\* The summed confidence of the five joints of the left and of the right side
\* of the pose of the latest update.
LeftSum == keypoints[1][3] + keypoints[3][3] + keypoints[5][3]
               + keypoints[11][3] + keypoints[13][3]
RightSum == keypoints[2][3] + keypoints[4][3] + keypoints[6][3]
                + keypoints[12][3] + keypoints[14][3]

\* C6, as stated: the side detected is the one with the strictly larger
\* confidence sum, and RIGHT when the sums are equal.
C6_TieGivesRight ==
    (variant = "side" /\ Updated) =>
        detected_side = IF LeftSum > RightSum THEN "LEFT" ELSE "RIGHT"

\* C6, amended: the side detected is the one with the strictly larger
\* confidence sum, and LEFT when the sums are equal; it depends on the pose of
\* this update only.
C6_TieGivesLeft ==
    (variant = "side" /\ Updated) =>
        detected_side = IF RightSum > LeftSum THEN "RIGHT" ELSE "LEFT"

C6_Witness ==
    /\ variant = "side" /\ Updated
    /\ LeftSum = RightSum /\ LeftSum > 0
    /\ detected_side = "LEFT"
    /\ nUpdates > 1

\* C7: the classification is GOOD exactly when the score is at least 60 and
\* BAD otherwise, and the monitor starts or continues its bad-posture run on
\* exactly the frames classified BAD.
C7_ClassificationBoundary ==
    Scored =>
        /\ ret.data.classification \in {"GOOD", "BAD"}
        /\ ret.data.classification = "GOOD" <=> ret.data.score >= 60000
        /\ ret.data.classification = "BAD" =>
               bad_start = IF hist.prevBadStart = None THEN Num(now)
                           ELSE hist.prevBadStart
        /\ ret.data.classification = "GOOD" => bad_start = None

C7_Witness ==
    /\ Scored
    /\ ret.data.score = 60000
    /\ ret.data.classification = "GOOD"
    /\ hist.prevBadStart # None
    /\ bad_start = None

\* C8: every subscore returned lies in [0, 100] and the score in [0, 100],
\* also for feature values far beyond the threshold; the weights of each
\* configuration sum to 1.
C8_ScoresInRange ==
    /\ W_NECK + W_TORSO + W_ROLL = 10
    /\ SV_W_NECK + SV_W_TORSO = 10
    /\ Scored =>
           /\ \A k \in DOMAIN ret.data.subscores :
                  0 <= ret.data.subscores[k] /\ ret.data.subscores[k] <= 10000
           /\ 0 <= ret.data.score /\ ret.data.score <= 100000

C8_Witness ==
    /\ variant = "front" /\ Scored
    /\ IsNum(neck_flexion(keypoints))
    /\ neck_flexion(keypoints).v > 2 * 18
    /\ ret.data.subscores.Neck = 0

\* C9: every update returns a score result; a feature whose joints are below
\* the confidence threshold contributes the neutral subscore 0.5.
C9_UpdateAlwaysScores ==
    Updated =>
        /\ ret.data.tag = "data"
        /\ (variant = "side"
            /\ \E j \in {"ear", "shoulder", "hip"} : ret.side_kps[j][3] < 30)
               => ret.data.subscores.Neck = 5000

\* C10: a /pose request answers warming_up exactly when no frame was
\* published when it read the snapshot, and otherwise with the keypoints of
\* the frame published last; a request made after some request has returned
\* keypoints does not answer warming_up.
C10_WarmingUpUntilFirstFrame ==
    \A r \in Handlers :
        req[r].resp # "none" =>
            /\ req[r].resp = "warming_up" <=> req[r].pubAtRead = 0
            /\ req[r].resp = "keypoints" => req[r].kps = req[r].pubAtRead
            /\ req[r].afterKps => req[r].resp = "keypoints"

C10_Witness ==
    \E r \in Handlers :
        /\ req[r].pc = "done"
        /\ req[r].afterKps
        /\ req[r].resp = "keypoints"
        /\ req[r].kps = MaxFrames

\* C11: a holder of data_lock does nothing but copy while it holds it: the
\* capture thread only replaces the two snapshots, a /pose handler only reads
\* the snapshot out, and the /video generator does no encoding inside the
\* lock.
C11_LockHeldOnlyToCopy ==
    /\ data_lock = ByCapture => cap.pc \in {"frame", "keypoints", "release"}
    /\ \A r \in Handlers :
           data_lock = ByPose(r) => req[r].pc \in {"read", "release"}
    /\ data_lock = ByVideo => gen.held \subseteq {"copy"}

\* C12: each of the three alert values an update returns is a boolean, and
\* the bad-posture alert is the boolean False when bad_start is unset.
C12_AlertsAreBooleans ==
    Updated =>
        /\ ret.bad_alert \in {"True", "False"}
        /\ ret.seated_alert \in {"True", "False"}
        /\ ret.focused \in {"True", "False"}
        /\ bad_start = None => ret.bad_alert = "False"

\* C13: a joint is valid only when its confidence is strictly greater than
\* the minimum confidence, and a feature is computed only when every joint it
\* uses is valid: in the front view neck flexion, torso compression and torso
\* roll are None when a joint they use is not; in the side view a frame is
\* scored only when eye, ear, shoulder, hip and knee are all valid.
C13_FeaturesNeedValidJoints ==
    /\ (variant = "front" /\ Updated) =>
           /\ (\E i \in {0, 5, 6, 11, 12} : ~(keypoints[i][3] > 40))
                  => neck_flexion(keypoints) = None
           /\ (\E i \in {5, 6, 11, 12} : ~(keypoints[i][3] > 40))
                  => torso_compression(keypoints) = None
           /\ (\E i \in {5, 6} : ~(keypoints[i][3] > 40))
                  => torso_roll(keypoints) = None
    /\ (variant = "side" /\ Scored) =>
           \A j \in {"eye", "ear", "shoulder", "hip", "knee"} :
               ret.side_kps[j][3] > 30

\* The front part of C13 alone, and the side part alone.
C13_FrontPart == variant = "front" => C13_FeaturesNeedValidJoints
C13_SidePart == variant = "side" => C13_FeaturesNeedValidJoints

\* C14: on every update, focused equals (now - last_move) > 5 min, with
\* last_move as this update's movement check leaves it; also on a frame
\* whose reference angle cannot be computed.
C14_FocusedIsStillTime ==
    Updated => ret.focused = PyBool(now - last_move > 5 * 60 * 1000)

\* The label is among the reasons of the latest update.
HasReason(label) ==
    \E i \in DOMAIN ret.data.reasons : ret.data.reasons[i] = label

\* C15: in the front view a reason is listed exactly when the raw feature
\* crosses its threshold, whatever the classification: "Forward Head" iff neck
\* flexion > 18, "Slouching" iff the torso ratio is a number below 1.6 (a
\* ratio of exactly 0 included), "Lateral Lean" iff roll > 12; a None feature
\* adds no reason.
C15_ReasonsFollowRawFeatures ==
    (variant = "front" /\ Scored) =>
        LET neck == neck_flexion(keypoints)
            comp == torso_compression(keypoints)
            roll == torso_roll(keypoints)
        IN  /\ HasReason("Forward Head") <=> (IsNum(neck) /\ neck.v > 18)
            /\ HasReason("Slouching") <=> (IsNum(comp) /\ comp.v < 160)
            /\ HasReason("Lateral Lean") <=> (IsNum(roll) /\ roll.v > 12)

\* The two shoulders of the pose coincide, or the midpoint of the shoulders
\* is the midpoint of the hips.
ZeroShoulderWidth == YX(keypoints[5]) = YX(keypoints[6])
ZeroTorsoHeight ==
    midpoint(keypoints[5], keypoints[6]) = midpoint(keypoints[11], keypoints[12])

\* C16: in the front view, a pose with zero shoulder width or zero torso
\* height gives torso compression None and neck flexion None, both subscores
\* neutral (50), and no not-a-number value.
C16_DegenerateGeometryIsNone ==
    (variant = "front" /\ Scored /\ (ZeroShoulderWidth \/ ZeroTorsoHeight)) =>
        /\ torso_compression(keypoints) = None
        /\ neck_flexion(keypoints) = None
        /\ ret.data.subscores.Neck = 5000
        /\ ret.data.subscores.Torso = 5000

\* The pose is upright and symmetric, every joint at confidence 1.0: the
\* shoulders at one height, the hips at one height below them, the nose on
\* the vertical line through the two midpoints.
UprightSymmetric ==
    /\ \A i \in {0, 5, 6, 11, 12} : keypoints[i][3] = 100
    /\ keypoints[5][1] = keypoints[6][1]
    /\ keypoints[11][1] = keypoints[12][1]
    /\ keypoints[5][1] < keypoints[11][1]
    /\ keypoints[5][2] # keypoints[6][2]
    /\ keypoints[5][2] < keypoints[6][2] <=> keypoints[11][2] < keypoints[12][2]
    /\ 2 * keypoints[0][2] = keypoints[5][2] + keypoints[6][2]
    /\ 2 * keypoints[0][2] = keypoints[11][2] + keypoints[12][2]

\* C17: a front-view pose in an upright symmetric stance, whichever image
\* side the left shoulder is on, has neck flexion 0 and torso roll 0, Neck
\* and Roll subscores 100, and no "Lateral Lean".
C17_UprightStanceIsNeutral ==
    (variant = "front" /\ Scored /\ UprightSymmetric) =>
        /\ neck_flexion(keypoints) = Num(0)
        /\ torso_roll(keypoints) = Num(0)
        /\ ret.data.subscores.Neck = 10000
        /\ ret.data.subscores.Roll = 10000
        /\ ~HasReason("Lateral Lean")

\* C20: in the side view an angle below its good range is the forward
\* direction (reason "Neck Forward" or "Torso Slouched", forward tolerance)
\* and an angle above it the backward direction (reason "Neck Back" or "Torso
\* Leaning Back", backward tolerance); a reason is listed exactly when the
\* angle is outside the range.
C20_ReasonDirectionMatchesSubscore ==
    (variant = "side" /\ Scored) =>
        LET d == ret.data
        IN  /\ HasReason("Neck Forward") <=> d.neck_angle < 180
            /\ HasReason("Neck Back") <=> d.neck_angle > 180
            /\ HasReason("Torso Slouched") <=> d.torso_angle < 90
            /\ HasReason("Torso Leaning Back") <=> d.torso_angle > 90
            /\ d.neck_angle < 180 =>
                   d.subscores.Neck = Max(0, 10000 - ((180 - d.neck_angle) * 10000) \div 20)
            /\ d.neck_angle > 180 =>
                   d.subscores.Neck = Max(0, 10000 - ((d.neck_angle - 180) * 10000) \div 10)
            /\ d.torso_angle < 90 =>
                   d.subscores.Torso = Max(0, 10000 - ((90 - d.torso_angle) * 10000) \div 10)
            /\ d.torso_angle > 90 =>
                   d.subscores.Torso = Max(0, 10000 - ((d.torso_angle - 90) * 10000) \div 15)

\* A scoring function has been called.
Called(fn) == calc.fn = fn /\ calc.out # <<>>

\* C18: subscore is monotonic over the non-negative values: with invert
\* False a larger value never gives a larger subscore, the subscore is 1 at
\* value 0 and 0 at every value >= the threshold; with invert True a larger
\* value never gives a smaller subscore, and the subscore is 1 at every value
\* >= the threshold.
C18_SubscoreMonotonic ==
    Called("subscore") =>
        /\ ~calc.invert =>
               /\ calc.val <= calc.val2 => calc.out[1] >= calc.out[2]
               /\ calc.val = 0 => calc.out[1] = 10000
               /\ calc.val >= calc.thresh => calc.out[1] = 0
        /\ calc.invert =>
               /\ calc.val <= calc.val2 => calc.out[1] <= calc.out[2]
               /\ calc.val >= calc.thresh => calc.out[1] = 10000

C18_Witness ==
    /\ Called("subscore") /\ calc.invert
    /\ calc.thresh = 160
    /\ calc.val < calc.val2 /\ calc.val2 > calc.thresh
    /\ 0 < calc.out[1] /\ calc.out[1] < calc.out[2]
    /\ calc.out[2] = 10000

\* s is 1 - dist/tolerance in units of 1/10000, rounded up to the unit, and
\* 0 from dist = tolerance on.
IsRamp(s, dist, tolerance) ==
    IF dist >= tolerance THEN s = 0
    ELSE /\ 0 < s /\ s <= 10000
         /\ 0 <= 10000 * dist - tolerance * (10000 - s)
         /\ 10000 * dist - tolerance * (10000 - s) < tolerance

\* C19: a side-view angle subscore is 1.0 inside the good range (neck
\* [180,180], torso [90,90]); below the range it is max(0, 1 - dist/forward
\* tolerance), above it max(0, 1 - dist/backward tolerance), dist measured to
\* the nearest boundary; so it is 0 exactly from dist = tolerance on (neck 20
\* forward, 10 backward; torso 10 forward, 15 backward).
C19_SideSubscoreRamp ==
    /\ Called("neck_subscore") =>
           LET a == calc.val
               s == calc.out[1]
           IN  /\ a = 180 => s = 10000
               /\ a < 180 => IsRamp(s, 180 - a, 20)
               /\ a > 180 => IsRamp(s, a - 180, 10)
               /\ s = 0 <=> (a <= 160 \/ a >= 190)
    /\ Called("torso_subscore") =>
           LET a == calc.val
               s == calc.out[1]
           IN  /\ a = 90 => s = 10000
               /\ a < 90 => IsRamp(s, 90 - a, 10)
               /\ a > 90 => IsRamp(s, a - 90, 15)
               /\ s = 0 <=> (a <= 80 \/ a >= 105)

C19_Witness ==
    /\ Called("neck_subscore")
    /\ calc.val = 185
    /\ calc.out[1] = 5000

\* The latest step was a side-view update that rejected its frame.
RejectedStep ==
    /\ variant = "side"
    /\ nUpdates' = nUpdates + 1
    /\ ret'.data.tag = "None"

\* C21: a side-view update on a frame rejected by the confidence check
\* leaves bad_start, seated_start, last_move and the last reference angle as
\* they were; so in a run with no GOOD frame, the first BAD frame at t0 and
\* any number of rejected frames, a BAD frame at time now has bad_start = t0
\* and raises the bad-posture alert exactly when now - t0 > 10 s.
C21_RejectedFrameKeepsRun ==
    /\ [][RejectedStep =>
             UNCHANGED <<bad_start, seated_start, last_move, last_head,
                         last_eye_ear_shoulder_angle>>]_vars
    /\ []((variant = "side" /\ Scored /\ ~hist.afterGood
               /\ hist.lastClass = "BAD") =>
              /\ bad_start = hist.firstBad
              /\ ret.bad_alert = PyBool(now - hist.firstBad.v > 10000))

C21_Witness ==
    /\ variant = "side" /\ Scored
    /\ ~hist.afterGood /\ hist.lastClass = "BAD"
    /\ hist.rejectedSinceBad
    /\ now - hist.firstBad.v > 10000
    /\ ret.bad_alert = "True"

\* C22: whenever data_lock is not held by the capture thread, latest_frame
\* and latest_keypoints are both None or both of the same captured frame;
\* only the capture thread, holding the lock, writes them; and the index of
\* the published frame never decreases.
C22_SnapshotConsistent ==
    /\ [](data_lock # ByCapture => latest_frame = latest_keypoints)
    /\ [][(latest_frame' # latest_frame \/ latest_keypoints' # latest_keypoints)
             => (data_lock = ByCapture /\ cap' # cap
                 /\ req' = req /\ gen' = gen)]_vars
    /\ [][published' >= published]_vars

C22_Witness ==
    /\ data_lock = ByVideo
    /\ cap.pc = "acquire" /\ cap.frame = MaxFrames
    /\ latest_frame = MaxFrames - 1
    /\ latest_keypoints = MaxFrames - 1
    /\ \E r \in Handlers : req[r].resp = "keypoints"

\* C23: if the /video generator is started before the first frame is
\* published, then under weak fairness of every thread the capture thread
\* eventually publishes a frame and the generator eventually yields one.
C23_GeneratorDoesNotStarveCapture ==
    /\ (gen.pc # "idle" /\ published = 0) ~> (published > 0)
    /\ (gen.pc # "idle" /\ published = 0) ~> (gen.yields > 0)

=============================================================================
